---- MODULE Spec2Model ----
(***************************************************************************)
(* A model of the patch-hierarchy tools of masclet_framework               *)
(* (tools.py and tools_xyz.py).                                            *)
(*                                                                         *)
(* Every function of the library is stateless, so the state of the model   *)
(* is the state of one call: the arguments it was given (args), the local  *)
(* variables of the running function (frame), the position reached in its  *)
(* body (pc) and what it handed back to the caller (ret).  Each function   *)
(* has a specification of its own, whose Init draws the arguments from     *)
(* small sets and whose actions are the steps of the function's body.      *)
(*                                                                         *)
(* Python sequences are 0-based and TLA+ sequences 1-based: a Python       *)
(* list s is the TLA+ sequence whose element k+1 is s[k]; At(s, k) reads   *)
(* s[k].  Lengths are in integer length units chosen so that every         *)
(* division the code performs on the modelled inputs is exact.             *)
(***************************************************************************)
EXTENDS Integers, Sequences, FiniteSets, TLC

VARIABLES pc, args, frame, ret

vars == <<pc, args, frame, ret>>

(***************************************************************************)
(* Python values and outcomes                                              *)
(***************************************************************************)
None == [kind |-> "None"]

NaN == [kind |-> "nan"]

Value(v) == [kind |-> "value", val |-> v]

Raise(exc) == [kind |-> "raise", exc |-> exc]

At(s, k) == s[k + 1]

\* s[a:b] of a Python list, for 0 <= a: both ends are clipped to the list
Slice(s, a, b) == SubSeq(s, a + 1, IF b < Len(s) THEN b ELSE Len(s))

\* range(a, b)
Range(a, b) == [k \in 1..(IF b > a THEN b - a ELSE 0) |-> a + k - 1]

RECURSIVE Sum(_)
Sum(s) == IF Len(s) = 0 THEN 0 ELSE Head(s) + Sum(Tail(s))

RECURSIVE Flatten(_)
Flatten(ss) == IF Len(ss) = 0 THEN <<>> ELSE Head(ss) \o Flatten(Tail(ss))

RECURSIVE Pow(_, _)
Pow(b, e) == IF e <= 0 THEN 1 ELSE b * Pow(b, e - 1)

\* [v] * n
Repeat(v, n) == [k \in 1..n |-> v]

SeqsUpTo(S, n) == UNION {[1..k -> S] : k \in 0..n}

SeqMax(s) == CHOOSE m \in {s[k] : k \in 1..Len(s)} : \A k \in 1..Len(s) : s[k] <= m

(***************************************************************************)
(* tools.create_vector_levels                                              *)
(***************************************************************************)
\* a slip in the comprehension: the level taken from enumerate's index
create_vector_levels_index(npatch) ==
    LET rest == Slice(npatch, 1, Len(npatch))
    IN  Flatten(<< <<0>> >> \o [i \in 1..Len(rest) |-> Repeat(i - 1, rest[i])])

\* vector = [[0]] + [[i+1]*x for (i, x) in enumerate(npatch[1:])], flattened
create_vector_levels(npatch) ==
    LET rest == Slice(npatch, 1, Len(npatch))
    IN  Flatten(<< <<0>> >> \o [i \in 1..Len(rest) |-> Repeat(i, rest[i])])

\* bounds of the hierarchies the level vector is computed for
LevelsMaxLen == 3

LevelsMaxCount == 3

InitLevels ==
    /\ pc = "start"
    /\ args \in {[npatch |-> s] : s \in SeqsUpTo(0..LevelsMaxCount, LevelsMaxLen)}
    /\ frame = <<>>
    /\ ret = None

CallCreateVectorLevels ==
    /\ pc = "start"
    /\ ret' = Value(create_vector_levels(args.npatch))
    /\ pc' = "done"
    /\ UNCHANGED <<args, frame>>

NextLevels == CallCreateVectorLevels

SpecLevels == InitLevels /\ [][NextLevels]_vars

Count(s, v) == Cardinality({k \in 1..Len(s) : s[k] = v})

NonDecreasing(s) == \A k \in 1..(Len(s) - 1) : s[k] <= s[k + 1]

\* C4 as stated: for every sequence npatch of non-negative integers the
\* returned vector has length sum(npatch), starts with 0, is non-decreasing
\* and holds exactly npatch[l] entries equal to l for every level l >= 1.
C4_AsStated ==
    pc = "done" =>
        /\ Len(ret.val) = Sum(args.npatch)
        /\ ret.val[1] = 0
        /\ NonDecreasing(ret.val)
        /\ \A l \in 1..(Len(args.npatch) - 1) : Count(ret.val, l) = At(args.npatch, l)

\* C4 amended: the vector always holds one entry for the base grid, whatever
\* npatch[0] says (and when npatch is empty): its length is
\* 1 + sum(npatch[1:]), which is sum(npatch) exactly when npatch[0] = 1; it
\* starts with 0, is non-decreasing, holds exactly one 0 and exactly
\* npatch[l] entries equal to l for every level l >= 1.
C4_LevelVector ==
    pc = "done" =>
        /\ Len(ret.val) = 1 + Sum(Slice(args.npatch, 1, Len(args.npatch)))
        /\ (Len(args.npatch) > 0 /\ At(args.npatch, 0) = 1
                => Len(ret.val) = Sum(args.npatch))
        /\ ret.val[1] = 0
        /\ Count(ret.val, 0) = 1
        /\ NonDecreasing(ret.val)
        /\ \A l \in 1..(Len(args.npatch) - 1) : Count(ret.val, l) = At(args.npatch, l)

C4_Witness ==
    /\ pc = "done"
    /\ args.npatch = <<2, 0, 3>>
    /\ ret.val = <<0, 2, 2, 2>>

(***************************************************************************)
(* tools_xyz.clean_field                                                   *)
(*                                                                         *)
(* A patch's array is the sequence of its cells; field, cr0amr and solapst *)
(* hold one array per patch of the level vector.                           *)
(***************************************************************************)
\* a * b of two arrays of the same shape
ArrayMul(a, b) == [c \in DOMAIN a |-> a[c] * b[c]]

\* min(up_to_level, levels.max())
CleanUpTo(up_to_level, levels) ==
    IF up_to_level < SeqMax(levels) THEN up_to_level ELSE SeqMax(levels)

\* the bounds of range(sum(npatch[0:level]) + 1, sum(npatch[0:level + 1]) + 1)
CleanFirst(npatch, level) == Sum(Slice(npatch, 0, level)) + 1

CleanStop(npatch, level) == Sum(Slice(npatch, 0, level + 1)) + 1

\* default of the parameter up_to_level
UpToLevelDefault == 1000

\* bounds of the hierarchies cleaned: levels above the base grid, patches
\* per level, cells per patch
CleanMaxLevel == 2

CleanMaxCount == 2

CleanCells == 1

\* npatch[0] is 1 (the base grid counted, as the hierarchy descriptor is
\* documented) or 0 (the base grid left out of the counts)
CleanHierarchies ==
    {<<b>> \o s : b \in {0, 1}, s \in SeqsUpTo(0..CleanMaxCount, CleanMaxLevel)}

NumPatches(npatch) == Len(create_vector_levels(npatch))

\* a field whose patches hold different values, so that a cleaned patch
\* tells which input patch it was computed from
TaggedField(n) == [ip \in 1..n |-> [c \in 1..CleanCells |-> ip]]

MaskFields(n) == [1..n -> [1..CleanCells -> {0, 1}]]

InitClean ==
    /\ pc = "start"
    /\ \E npatch \in CleanHierarchies :
         \E cr \in MaskFields(NumPatches(npatch)), so \in MaskFields(NumPatches(npatch)) :
           \E utl \in {1, 2, UpToLevelDefault} :
             args = [field |-> TaggedField(NumPatches(npatch)), cr0amr |-> cr,
                     solapst |-> so, npatch |-> npatch, up_to_level |-> utl]
    /\ frame = <<>>
    /\ ret = None

\* lines 160-163: the level vector, the clipped up_to_level, the base patch
CleanBase ==
    /\ pc = "start"
    /\ LET levels == create_vector_levels(args.npatch)
       IN  frame' = [levels |-> levels,
                     up_to_level |-> CleanUpTo(args.up_to_level, levels),
                     cleanfield |-> <<ArrayMul(At(args.field, 0), At(args.cr0amr, 0))>>,
                     level |-> 1,
                     ipatch |-> CleanFirst(args.npatch, 1)]
    /\ pc' = "levels"
    /\ UNCHANGED <<args, ret>>

\* line 167, one pass of the inner loop of lines 165-167; reading past the
\* end of field raises IndexError
CleanAppend ==
    /\ pc = "levels"
    /\ frame.level < frame.up_to_level
    /\ frame.ipatch < CleanStop(args.npatch, frame.level)
    /\ IF frame.ipatch < Len(args.field)
       THEN /\ frame' = [frame EXCEPT
                           !.cleanfield =
                               Append(@, ArrayMul(ArrayMul(At(args.field, frame.ipatch),
                                                           At(args.cr0amr, frame.ipatch)),
                                                  At(args.solapst, frame.ipatch))),
                           !.ipatch = @ + 1]
            /\ UNCHANGED <<pc, ret>>
       ELSE /\ ret' = Raise("IndexError")
            /\ pc' = "done"
            /\ UNCHANGED frame
    /\ UNCHANGED args

\* lines 165-166: the inner range is exhausted, on to the next level
CleanNextLevel ==
    /\ pc = "levels"
    /\ frame.level < frame.up_to_level
    /\ frame.ipatch >= CleanStop(args.npatch, frame.level)
    /\ frame' = [frame EXCEPT !.level = @ + 1,
                              !.ipatch = CleanFirst(args.npatch, frame.level + 1)]
    /\ UNCHANGED <<pc, args, ret>>

\* line 170: range(1, up_to_level) is exhausted, the last level's range starts
CleanEnterLast ==
    /\ pc = "levels"
    /\ frame.level >= frame.up_to_level
    /\ frame' = [frame EXCEPT !.ipatch = CleanFirst(args.npatch, frame.up_to_level)]
    /\ pc' = "last"
    /\ UNCHANGED <<args, ret>>

\* line 171, one pass of the loop of lines 170-171
CleanLastAppend ==
    /\ pc = "last"
    /\ frame.ipatch < CleanStop(args.npatch, frame.up_to_level)
    /\ frame.ipatch < Len(args.field)
    /\ frame' = [frame EXCEPT
                   !.cleanfield = Append(@, ArrayMul(At(args.field, frame.ipatch),
                                                     At(args.solapst, frame.ipatch))),
                   !.ipatch = @ + 1]
    /\ UNCHANGED <<pc, args, ret>>

\* line 171 reading past the end of field
CleanLastIndexError ==
    /\ pc = "last"
    /\ frame.ipatch < CleanStop(args.npatch, frame.up_to_level)
    /\ frame.ipatch >= Len(args.field)
    /\ ret' = Raise("IndexError")
    /\ pc' = "done"
    /\ UNCHANGED <<args, frame>>

\* line 173
CleanReturn ==
    /\ pc = "last"
    /\ frame.ipatch >= CleanStop(args.npatch, frame.up_to_level)
    /\ ret' = Value(frame.cleanfield)
    /\ pc' = "done"
    /\ UNCHANGED <<args, frame>>

NextClean ==
    \/ CleanBase
    \/ CleanAppend
    \/ CleanNextLevel
    \/ CleanEnterLast
    \/ CleanLastAppend
    \/ CleanLastIndexError
    \/ CleanReturn

SpecClean == InitClean /\ [][NextClean]_vars

\* what the contract asks of the cleaned patch ipatch, of level l, when
\* levels up to L are processed
CleanExpected(ipatch, l, L) ==
    IF l = 0 THEN ArrayMul(At(args.field, ipatch), At(args.cr0amr, ipatch))
    ELSE IF l < L
         THEN ArrayMul(ArrayMul(At(args.field, ipatch), At(args.cr0amr, ipatch)),
                       At(args.solapst, ipatch))
         ELSE ArrayMul(At(args.field, ipatch), At(args.solapst, ipatch))

CleanedAsExpected(cleaned) ==
    LET levels == create_vector_levels(args.npatch)
        L == CleanUpTo(args.up_to_level, levels)
    IN  \A ipatch \in 0..(Len(levels) - 1) :
          At(levels, ipatch) <= L =>
            /\ ipatch < Len(cleaned)
            /\ At(cleaned, ipatch) = CleanExpected(ipatch, At(levels, ipatch), L)

\* C1: with npatch[0] = 1 (the base grid counted in npatch), clean_field
\* returns a sequence whose entry ipatch, for every patch of a level
\* l <= L = min(up_to_level, max level), is field*cr0amr (l = 0),
\* field*cr0amr*solapst (1 <= l < L) or field*solapst (l = L), computed from
\* input patch ipatch.
C1_CleanedByIndex ==
    (pc = "done" /\ At(args.npatch, 0) = 1) =>
        /\ ret.kind = "value"
        /\ CleanedAsExpected(ret.val)

\* For comparison, the same contract for a descriptor that leaves the base
\* grid out of the counts (npatch[0] = 0, 1 + sum(npatch) patches): it holds,
\* the ranges of lines 166 and 170 are those of this descriptor.
CleanBaseNotCounted ==
    (pc = "done" /\ At(args.npatch, 0) = 0) =>
        /\ ret.kind = "value"
        /\ CleanedAsExpected(ret.val)

(***************************************************************************)
(* tools.find_absolute_grid_position                                       *)
(*                                                                         *)
(* The recursion is run on an explicit call stack: frame.stack holds the   *)
(* ipatch of every active call, the innermost last.  Grid positions are    *)
(* held as multiples of 1/GridScale, so that the divisions by              *)
(* 2 ** (level - 1) are exact.                                             *)
(***************************************************************************)
\* bounds: levels above the base grid, patches per level, and the depth at
\* which the interpreter gives up a recursion (RecursionError)
GridMaxLevel == 2

GridMaxCount == 2

GridRecursionLimit == 5

GridScale == Pow(2, GridMaxLevel - 1)

\* hierarchies with the base grid counted once and every level populated
GridHierarchies == {<<1>> \o s : s \in SeqsUpTo(1..GridMaxCount, GridMaxLevel)}

GridOffsets == {<<1, 1, 1>>, <<3, 2, 1>>}

\* the parent arrays of a hierarchy: the base grid and the level-1 patches
\* have parent 0, a deeper patch has a parent one level up
GridParents(levels) ==
    {pare \in [1..Len(levels) -> 0..(Len(levels) - 1)] :
        \A k \in 1..Len(levels) :
            IF levels[k] <= 1 THEN pare[k] = 0
            ELSE At(levels, pare[k]) = levels[k] - 1}

InitGrid ==
    /\ pc = "call"
    /\ \E npatch \in GridHierarchies :
         LET levels == create_vector_levels(npatch)
         IN  \E pare \in GridParents(levels), offs \in [1..Len(levels) -> GridOffsets],
                ipatch \in 0..Len(levels) :
               /\ args = [ipatch |-> ipatch, npatch |-> npatch,
                          patchx |-> [k \in 1..Len(levels) |-> offs[k][1]],
                          patchy |-> [k \in 1..Len(levels) |-> offs[k][2]],
                          patchz |-> [k \in 1..Len(levels) |-> offs[k][3]],
                          pare |-> pare]
               /\ frame = [stack |-> <<ipatch>>, value |-> None]
    /\ ret = None

\* lines 62-64, with the callee's result parevalues
GridCombine(ipatch, level, parevalues) ==
    << ((At(args.patchx, ipatch) - 1) * GridScale) \div Pow(2, level - 1) + parevalues[1],
       ((At(args.patchy, ipatch) - 1) * GridScale) \div Pow(2, level - 1) + parevalues[2],
       ((At(args.patchz, ipatch) - 1) * GridScale) \div Pow(2, level - 1) + parevalues[3] >>

\* line 58: the level whose offsets are grid positions already
GridIsDirect(level) == level = 1

\* lines 56-61 of the innermost call: the level lookup, the range check, the
\* direct answer of a level-1 patch, or the call for the parent
GridCall ==
    /\ pc = "call"
    /\ LET ipatch == frame.stack[Len(frame.stack)]
           levels == create_vector_levels(args.npatch)
       IN  IF ipatch >= Len(levels)
           THEN /\ ret' = Raise("IndexError")
                /\ pc' = "done"
                /\ frame' = frame
           ELSE IF ipatch >= Len(args.patchx)
           THEN /\ ret' = Raise("ValueError")
                /\ pc' = "done"
                /\ frame' = frame
           ELSE IF GridIsDirect(At(levels, ipatch))
           THEN /\ frame' = [frame EXCEPT !.value = <<At(args.patchx, ipatch) * GridScale,
                                                       At(args.patchy, ipatch) * GridScale,
                                                       At(args.patchz, ipatch) * GridScale>>]
                /\ pc' = "return"
                /\ ret' = ret
           ELSE IF Len(frame.stack) >= GridRecursionLimit
           THEN /\ ret' = Raise("RecursionError")
                /\ pc' = "done"
                /\ frame' = frame
           ELSE /\ frame' = [frame EXCEPT !.stack = Append(@, At(args.pare, ipatch))]
                /\ pc' = pc
                /\ ret' = ret
    /\ UNCHANGED args

\* lines 62-64: the innermost call returns to its caller, which adds its own
\* offset
GridReturn ==
    /\ pc = "return"
    /\ Len(frame.stack) > 1
    /\ LET caller == frame.stack[Len(frame.stack) - 1]
           levels == create_vector_levels(args.npatch)
       IN  frame' = [stack |-> SubSeq(frame.stack, 1, Len(frame.stack) - 1),
                     value |-> GridCombine(caller, At(levels, caller), frame.value)]
    /\ UNCHANGED <<pc, args, ret>>

\* the outermost call returns to the caller of the function
GridFinish ==
    /\ pc = "return"
    /\ Len(frame.stack) = 1
    /\ ret' = Value(frame.value)
    /\ pc' = "done"
    /\ UNCHANGED <<args, frame>>

NextGrid == GridCall \/ GridReturn \/ GridFinish

SpecGrid == InitGrid /\ [][NextGrid]_vars

NoRevisit(stack) == \A i, j \in 1..Len(stack) : i # j => stack[i] # stack[j]

\* C9: for every ipatch with 0 <= ipatch < patch count (the base grid
\* included) and every parent array of a well-formed hierarchy, the
\* recursion never visits a patch index twice, never runs into the
\* recursion limit, and the call returns an (X, Y, Z) triple.
C9_Terminates ==
    args.ipatch < NumPatches(args.npatch) =>
        /\ NoRevisit(frame.stack)
        /\ (pc = "done" => ret.kind = "value" /\ Len(ret.val) = 3)

\* For comparison, the same for the patches above the base grid
\* (1 <= ipatch < patch count): it holds.
GridTerminatesAboveBase ==
    (1 <= args.ipatch /\ args.ipatch < NumPatches(args.npatch)) =>
        /\ NoRevisit(frame.stack)
        /\ Len(frame.stack) <= GridMaxLevel
        /\ (pc = "done" => ret.kind = "value" /\ Len(ret.val) = 3)

(***************************************************************************)
(* Position fields and patch vertices                                      *)
(*                                                                         *)
(* A numpy array is a record of its shape and its data, a function of the  *)
(* index triples.  The box side is a multiple of LengthUnit cells of the   *)
(* base grid, so that size / nmax / 2 ** level and its half are integers   *)
(* at every modelled level.                                                *)
(***************************************************************************)
\* bound: the deepest level of a patch whose geometry is computed
GeomMaxLevel == 2

LengthUnit == Pow(2, GeomMaxLevel + 1)

GeomNmax == {1, 2}

GeomSizes(nmax) == {nmax * LengthUnit, 2 * nmax * LengthUnit}

Cells(nx, ny, nz) == (0..(nx - 1)) \X (0..(ny - 1)) \X (0..(nz - 1))

\* lines 46-49 of tools_xyz.py, line 109 of tools.py
CellSize(size, nmax, level) == (size \div nmax) \div Pow(2, level)

\* tools_xyz.compute_position_field_onepatch: the three arrays of a patch,
\* cell (i, j, k) at first + (i, j, k) * cellsize, first = r - cellsize / 2
compute_position_field_onepatch(a) ==
    LET cellsize == CellSize(a.size, a.nmax, a.level)
        first_x == a.rx - cellsize \div 2
        first_y == a.ry - cellsize \div 2
        first_z == a.rz - cellsize \div 2
        shape == <<a.nx, a.ny, a.nz>>
    IN  << [shape |-> shape,
            data |-> [c \in Cells(a.nx, a.ny, a.nz) |-> first_x + c[1] * cellsize]],
           [shape |-> shape,
            data |-> [c \in Cells(a.nx, a.ny, a.nz) |-> first_y + c[2] * cellsize]],
           [shape |-> shape,
            data |-> [c \in Cells(a.nx, a.ny, a.nz) |-> first_z + c[3] * cellsize]] >>

\* the eight corners, in the order of the loops over i, j, k in range(2)
Corners(leftmost, extent) ==
    [n \in 1..8 |->
        LET i == (n - 1) \div 4
            j == ((n - 1) \div 2) % 2
            k == (n - 1) % 2
        IN  <<leftmost[1] + i * extent[1],
              leftmost[2] + j * extent[2],
              leftmost[3] + k * extent[3]>>]

\* tools.patch_vertices: the corners from the patch's level and extent
patch_vertices_geometric(level, nx, ny, nz, rx, ry, rz, size, nmax) ==
    LET cellsize == CellSize(size, nmax, level)
    IN  Corners(<<rx - cellsize \div 2, ry - cellsize \div 2, rz - cellsize \div 2>>,
                <<nx * cellsize, ny * cellsize, nz * cellsize>>)

\* tools_xyz.patch_vertices: the corners from the position fields; the cell
\* size is the spacing of cells [1, 0, 0] and [0, 0, 0]
patch_vertices_fields(ipatch, cellsrx, cellsry, cellsrz) ==
    IF At(cellsrx, ipatch).shape[1] < 2 THEN Raise("IndexError")
    ELSE
    LET px == At(cellsrx, ipatch)
        cellsize == px.data[<<1, 0, 0>>] - px.data[<<0, 0, 0>>]
    IN  Value(Corners(<<px.data[<<0, 0, 0>>] - cellsize \div 2,
                        At(cellsry, ipatch).data[<<0, 0, 0>>] - cellsize \div 2,
                        At(cellsrz, ipatch).data[<<0, 0, 0>>] - cellsize \div 2>>,
                      <<px.shape[1] * cellsize, px.shape[2] * cellsize,
                        px.shape[3] * cellsize>>))

\* the patches whose vertices are computed
VertexPatches ==
    {[nx |-> nx, ny |-> ny, nz |-> nz, rx |-> r[1], ry |-> r[2], rz |-> r[3],
      level |-> level, size |-> size, nmax |-> nmax] :
        nx \in 1..3, ny \in 1..2, nz \in 1..2,
        r \in {<<0, 0, 0>>, <<LengthUnit, -LengthUnit, 3 * LengthUnit>>},
        level \in 0..GeomMaxLevel,
        size \in UNION {GeomSizes(n) : n \in GeomNmax}, nmax \in GeomNmax}

InitVertices ==
    /\ pc = "geometric"
    /\ args \in {a \in VertexPatches : a.size \in GeomSizes(a.nmax)}
    /\ frame = [geometric |-> None, cells |-> None]
    /\ ret = None

\* tools.patch_vertices on the patch
VerticesGeometric ==
    /\ pc = "geometric"
    /\ frame' = [frame EXCEPT !.geometric =
                    patch_vertices_geometric(args.level, args.nx, args.ny, args.nz,
                                             args.rx, args.ry, args.rz, args.size, args.nmax)]
    /\ pc' = "fields"
    /\ UNCHANGED <<args, ret>>

\* the position fields of the patch, as compute_position_fields builds them
VerticesPositionFields ==
    /\ pc = "fields"
    /\ frame' = [frame EXCEPT !.cells = compute_position_field_onepatch(args)]
    /\ pc' = "derived"
    /\ UNCHANGED <<args, ret>>

\* tools_xyz.patch_vertices on the position fields
VerticesFromFields ==
    /\ pc = "derived"
    /\ ret' = patch_vertices_fields(0, <<frame.cells[1]>>, <<frame.cells[2]>>,
                                    <<frame.cells[3]>>)
    /\ pc' = "done"
    /\ UNCHANGED <<args, frame>>

NextVertices == VerticesGeometric \/ VerticesPositionFields \/ VerticesFromFields

SpecVertices == InitVertices /\ [][NextVertices]_vars

\* C2: for a patch with nx >= 2 the eight vertices of the geometric
\* patch_vertices equal, in the same order, the eight vertices the
\* field-derived patch_vertices computes from the position fields of the
\* same patch.
C2_VerticesAgree ==
    (pc = "done" /\ args.nx >= 2) =>
        /\ ret.kind = "value"
        /\ ret.val = frame.geometric

\* What holds instead: every field-derived vertex lies half a cell below the
\* geometric one on each axis.
VerticesHalfCellApart ==
    (pc = "done" /\ args.nx >= 2) =>
        /\ ret.kind = "value"
        /\ LET h == CellSize(args.size, args.nmax, args.level) \div 2
           IN  \A n \in 1..8 : \A d \in 1..3 :
                 ret.val[n][d] = frame.geometric[n][d] - h

(***************************************************************************)
(* tools_xyz.compute_position_fields                                       *)
(*                                                                         *)
(* Pool(ncores).map hands the argument tuples, in order, to ncores worker  *)
(* processes; a free worker takes the next pending task, the tasks that    *)
(* run at the same time finish in any order, and map returns the results   *)
(* in the order of the tasks.  frame.completion records the order in       *)
(* which the tasks finished.                                               *)
(***************************************************************************)
\* bounds: patches of the hierarchy, levels above the base grid, workers
PoolMaxPatches == 3

PoolMaxLevel == 2

PoolMaxCores == 2

PoolHierarchies ==
    {h \in {<<1>> \o s : s \in SeqsUpTo(0..PoolMaxPatches, PoolMaxLevel)} :
        NumPatches(h) <= PoolMaxPatches}

\* extent and first-cell position of a patch
PoolPatches ==
    {[nx |-> 1, ny |-> 1, nz |-> 1, rx |-> 0, ry |-> 0, rz |-> 0],
     [nx |-> 2, ny |-> 1, nz |-> 2, rx |-> LengthUnit, ry |-> 0, rz |-> -LengthUnit]}

InitPool ==
    /\ pc = "start"
    /\ \E npatch \in PoolHierarchies :
         \E geom \in [1..NumPatches(npatch) -> PoolPatches], ncores \in 1..PoolMaxCores :
           args = [patchnx |-> [k \in DOMAIN geom |-> geom[k].nx],
                   patchny |-> [k \in DOMAIN geom |-> geom[k].ny],
                   patchnz |-> [k \in DOMAIN geom |-> geom[k].nz],
                   patchrx |-> [k \in DOMAIN geom |-> geom[k].rx],
                   patchry |-> [k \in DOMAIN geom |-> geom[k].ry],
                   patchrz |-> [k \in DOMAIN geom |-> geom[k].rz],
                   npatch |-> npatch, size |-> LengthUnit, nmax |-> 1, ncores |-> ncores]
    /\ frame = <<>>
    /\ ret = None

\* lines 80-81: the argument tuple of patch ipatch
PoolTask(levels, ipatch) ==
    [nx |-> At(args.patchnx, ipatch), ny |-> At(args.patchny, ipatch),
     nz |-> At(args.patchnz, ipatch), rx |-> At(args.patchrx, ipatch),
     ry |-> At(args.patchry, ipatch), rz |-> At(args.patchrz, ipatch),
     level |-> At(levels, ipatch), size |-> args.size, nmax |-> args.nmax]

\* a pool that hands the results back as they were completed
MapResults_by_completion(results, completion) ==
    [k \in 1..Len(completion) |-> results[completion[k]]]

\* what p.map returns: the result of task k at place k
MapResults(results, completion) == [k \in 1..Len(completion) |-> results[k]]

\* lines 77-81: the level vector, the pool, the tasks in patch order
PoolStart ==
    /\ pc = "start"
    /\ LET levels == create_vector_levels(args.npatch)
           n == Len(args.patchnx)
       IN  frame' = [tasks |-> [k \in 1..n |-> PoolTask(levels, k - 1)],
                     pending |-> Range(1, n + 1),
                     worker |-> [w \in 1..args.ncores |-> 0],
                     results |-> [k \in 1..n |-> None],
                     completion |-> <<>>]
    /\ pc' = "map"
    /\ UNCHANGED <<args, ret>>

\* a free worker takes the next pending task
WorkerTake(w) ==
    /\ pc = "map"
    /\ frame.worker[w] = 0
    /\ Len(frame.pending) > 0
    /\ frame' = [frame EXCEPT !.worker[w] = Head(frame.pending),
                              !.pending = Tail(@)]
    /\ UNCHANGED <<pc, args, ret>>

\* a worker finishes its task: compute_position_field_onepatch on its tuple
WorkerFinish(w) ==
    /\ pc = "map"
    /\ frame.worker[w] # 0
    /\ LET k == frame.worker[w]
       IN  frame' = [frame EXCEPT
                       !.results[k] = compute_position_field_onepatch(frame.tasks[k]),
                       !.completion = Append(@, k),
                       !.worker[w] = 0]
    /\ UNCHANGED <<pc, args, ret>>

\* lines 79-87: map returns once every task is finished; the three fields
\* are split off its result
PoolReturn ==
    /\ pc = "map"
    /\ Len(frame.pending) = 0
    /\ \A w \in 1..args.ncores : frame.worker[w] = 0
    /\ LET positions == MapResults(frame.results, frame.completion)
       IN  ret' = Value(<< [k \in 1..Len(positions) |-> positions[k][1]],
                           [k \in 1..Len(positions) |-> positions[k][2]],
                           [k \in 1..Len(positions) |-> positions[k][3]] >>)
    /\ pc' = "done"
    /\ UNCHANGED <<args, frame>>

NextPool ==
    \/ PoolStart
    \/ \E w \in 1..PoolMaxCores : w <= args.ncores /\ WorkerTake(w)
    \/ \E w \in 1..PoolMaxCores : w <= args.ncores /\ WorkerFinish(w)
    \/ PoolReturn

SpecPool == InitPool /\ [][NextPool]_vars

\* C3: whatever the number of workers and the order in which the tasks
\* finish, compute_position_fields returns three sequences with one entry
\* per patch, entry i being the x, y, z arrays of
\* compute_position_field_onepatch for patch i.
C3_OrderedByPatch ==
    pc = "done" =>
        LET levels == create_vector_levels(args.npatch)
            n == Len(args.patchnx)
        IN  /\ ret.kind = "value"
            /\ \A d \in 1..3 :
                 /\ Len(ret.val[d]) = n
                 /\ \A i \in 0..(n - 1) :
                      At(ret.val[d], i) =
                          compute_position_field_onepatch(PoolTask(levels, i))[d]

\* two workers, and a later patch of another shape finished before an
\* earlier one
C3_Witness ==
    /\ pc = "done"
    /\ args.ncores = 2
    /\ Len(frame.completion) = 3
    /\ frame.completion[1] = 2
    /\ frame.completion[2] = 1
    /\ At(args.patchnx, 0) # At(args.patchnx, 1)

(***************************************************************************)
(* Snapshots: a hierarchy with its position fields                         *)
(***************************************************************************)
\* numpy's broadcasting of two shapes: every axis equal, or 1 on one side
Broadcastable(s1, s2) == \A d \in 1..3 : s1[d] = s2[d] \/ s1[d] = 1 \/ s2[d] = 1

BroadcastShape(s1, s2) == [d \in 1..3 |-> IF s1[d] > s2[d] THEN s1[d] ELSE s2[d]]

BroadcastIndex(c, shape) == [d \in 1..3 |-> IF shape[d] = 1 THEN 0 ELSE c[d]]

CellsOf(shape) == Cells(shape[1], shape[2], shape[3])

\* a * b of two arrays that broadcast
ArrayProduct(a, b) ==
    LET shape == BroadcastShape(a.shape, b.shape)
    IN  [shape |-> shape,
         data |-> [c \in CellsOf(shape) |->
                     a.data[BroadcastIndex(c, a.shape)] * b.data[BroadcastIndex(c, b.shape)]]]

\* array * scalar
ArrayScale(a, x) == [shape |-> a.shape, data |-> [c \in DOMAIN a.data |-> a.data[c] * x]]

\* a boolean array as 0/1 numbers, as numpy multiplies it
AsNumber(m) == [shape |-> m.shape, data |-> [c \in DOMAIN m.data |-> IF m.data[c] THEN 1 ELSE 0]]

RECURSIVE SumOver(_, _)
SumOver(f, S) ==
    IF S = {} THEN 0 ELSE LET x == CHOOSE y \in S : TRUE IN f[x] + SumOver(f, S \ {x})

\* array.sum()
ArraySum(a) == SumOver(a.data, DOMAIN a.data)

\* zip(a, b, ...) stops at the shortest sequence
ZipLen(lens) == CHOOSE n \in lens : \A m \in lens : n <= m

SnapNmax == 2

SnapSize == SnapNmax * LengthUnit

\* the patches of a snapshot: the base grid of 2 x 2 x 1 cells with its
\* corner at (-U, -U, -U), the refined patches of 2 x 1 x 1 cells along the
\* plane x = 0
SnapPatch(k, level) ==
    LET cellsize == CellSize(SnapSize, SnapNmax, level)
        corner == IF k = 0 THEN <<-LengthUnit, -LengthUnit, -LengthUnit>>
                  ELSE <<0, (k - 2) * (LengthUnit \div 2), -LengthUnit>>
    IN  [nx |-> 2, ny |-> IF k = 0 THEN 2 ELSE 1, nz |-> 1,
         rx |-> corner[1] + cellsize \div 2, ry |-> corner[2] + cellsize \div 2,
         rz |-> corner[3] + cellsize \div 2,
         level |-> level, size |-> SnapSize, nmax |-> SnapNmax]

SnapHierarchies == {<<1>>, <<1, 1>>, <<1, 2>>, <<1, 1, 1>>}

\* the position fields of a hierarchy, as compute_position_fields returns them
SnapCells(npatch) ==
    LET levels == create_vector_levels(npatch)
        pos == [k \in 1..Len(levels) |->
                  compute_position_field_onepatch(SnapPatch(k - 1, levels[k]))]
    IN  [d \in 1..3 |-> [k \in 1..Len(levels) |-> pos[k][d]]]

SnapCenters ==
    {<<0, 0, -LengthUnit>>, <<-LengthUnit, 0, -LengthUnit>>,
     <<LengthUnit \div 2, LengthUnit \div 2, LengthUnit \div 2>>}

(***************************************************************************)
(* tools_xyz.mask_sphere                                                   *)
(***************************************************************************)
\* a slip in line 137: the comparison turned round
InsideSphere_outside(d2, R) == d2 > R * R

\* line 137: squared distance strictly below R ** 2
InsideSphere(d2, R) == d2 < R * R

\* lines 137-138: one boolean array per patch of the position fields
mask_sphere(R, clusrx, clusry, clusrz, cellsrx, cellsry, cellsrz) ==
    [k \in 1..ZipLen({Len(cellsrx), Len(cellsry), Len(cellsrz)}) |->
        [shape |-> cellsrx[k].shape,
         data |-> [c \in DOMAIN cellsrx[k].data |->
                     InsideSphere((cellsrx[k].data[c] - clusrx) * (cellsrx[k].data[c] - clusrx)
                                  + (cellsry[k].data[c] - clusry) * (cellsry[k].data[c] - clusry)
                                  + (cellsrz[k].data[c] - clusrz) * (cellsrz[k].data[c] - clusrz),
                                  R)]]]

\* the radii tried, in quarters of a base cell
SphereRadii ==
    {q * (LengthUnit \div 4) : q \in {-8, -4, -2, -1, 0, 1, 2, 4, 8}}

InitSphere ==
    /\ pc = "first"
    /\ \E npatch \in SnapHierarchies, clus \in SnapCenters, R1 \in SphereRadii,
          R2 \in SphereRadii :
         /\ R1 <= R2
         /\ args = [R1 |-> R1, R2 |-> R2, clusrx |-> clus[1], clusry |-> clus[2],
                    clusrz |-> clus[3], cellsrx |-> SnapCells(npatch)[1],
                    cellsry |-> SnapCells(npatch)[2], cellsrz |-> SnapCells(npatch)[3]]
    /\ frame = <<>>
    /\ ret = None

\* mask_sphere with the smaller radius
SphereFirst ==
    /\ pc = "first"
    /\ frame' = [first |-> mask_sphere(args.R1, args.clusrx, args.clusry, args.clusrz,
                                       args.cellsrx, args.cellsry, args.cellsrz)]
    /\ pc' = "second"
    /\ UNCHANGED <<args, ret>>

\* mask_sphere with the larger radius
SphereSecond ==
    /\ pc = "second"
    /\ ret' = Value(mask_sphere(args.R2, args.clusrx, args.clusry, args.clusrz,
                                args.cellsrx, args.cellsry, args.cellsrz))
    /\ pc' = "done"
    /\ UNCHANGED <<args, frame>>

NextSphere == SphereFirst \/ SphereSecond

SpecSphere == InitSphere /\ [][NextSphere]_vars

MaskWithin(m1, m2) ==
    /\ Len(m1) = Len(m2)
    /\ \A k \in 1..Len(m1) : \A c \in DOMAIN m1[k].data : m1[k].data[c] => m2[k].data[c]

MaskCount(m) == Sum([k \in 1..Len(m) |-> ArraySum(AsNumber(m[k]))])

\* C7 as stated: for any two radii R1 <= R2, every cell true in
\* mask_sphere(R1, ...) is true in mask_sphere(R2, ...).
C7_AsStated == pc = "done" => MaskWithin(frame.first, ret.val)

\* C7 amended: for any two radii with 0 <= R1 <= R2, every cell true in
\* mask_sphere(R1, ...) is true in mask_sphere(R2, ...); a negative radius
\* selects the sphere of its absolute value, since the test is against
\* R ** 2.
C7_MonotoneNonNegative ==
    (pc = "done" /\ 0 <= args.R1) => MaskWithin(frame.first, ret.val)

\* the smaller sphere holds some cells and the larger one strictly more
C7_Witness ==
    /\ pc = "done"
    /\ 0 < args.R1
    /\ args.R1 < args.R2
    /\ MaskCount(frame.first) > 0
    /\ MaskCount(ret.val) > MaskCount(frame.first)

(***************************************************************************)
(* tools_xyz.radial_profile_vw                                             *)
(*                                                                         *)
(* A quotient of two sums is the float nan when both are zero, and else    *)
(* the fraction in lowest terms.                                           *)
(***************************************************************************)
RECURSIVE GCD(_, _)
GCD(a, b) == IF b = 0 THEN a ELSE GCD(b, a % b)

Abs(x) == IF x < 0 THEN -x ELSE x

\* the weighted sum divided by the sum of the weights, without the weights
\* in the denominator's place
Divide_unweighted(num, den) ==
    IF den = 0 THEN NaN ELSE [kind |-> "value", num |-> num, den |-> 1]

\* num / den of line 275, den >= 0
Divide(num, den) ==
    IF den = 0 THEN NaN
    ELSE LET g == GCD(Abs(num), den)
         IN  [kind |-> "value", num |-> num \div g, den |-> den \div g]

\* cell volume of each patch: (size / nmax / 2 ** levels) ** 3
CellVolumes(levels, size, nmax) ==
    [k \in 1..Len(levels) |->
        CellSize(size, nmax, levels[k]) * CellSize(size, nmax, levels[k])
            * CellSize(size, nmax, levels[k])]

\* np.linspace(rmin, rmax, nbins + 1)
LinSpace(rmin, rmax, nbins) ==
    [k \in 1..(nbins + 1) |-> rmin + ((k - 1) * (rmax - rmin)) \div nbins]

\* np.logspace(np.log10(rmin), np.log10(rmax), nbins + 1): boundary k is
\* rmin * (rmax / rmin) ** (k / nbins), the b with
\* b ** nbins = rmin ** (nbins - k) * rmax ** k
LogSpace(rmin, rmax, nbins) ==
    [k \in 1..(nbins + 1) |->
        CHOOSE b \in rmin..rmax :
            Pow(b, nbins) = Pow(rmin, nbins - (k - 1)) * Pow(rmax, k - 1)]

\* the radii and bin counts tried are those whose boundaries and centres
\* are whole numbers of length units
ProfileRadii == {q * (LengthUnit \div 2) : q \in {-1, 0, 1, 2, 4}}

ProfileBins == {1, 2}

LogSpaceExact(rmin, rmax, nbins) ==
    \A k \in 0..nbins : \E b \in rmin..rmax :
        Pow(b, nbins) = Pow(rmin, nbins - k) * Pow(rmax, k)

\* a field of the snapshot's shapes: the same value in every cell, or a
\* value that changes with the patch and the cell
UniformField(cells, v) ==
    [k \in 1..Len(cells) |->
        [shape |-> cells[k].shape, data |-> [c \in DOMAIN cells[k].data |-> v]]]

GradedField(cells) ==
    [k \in 1..Len(cells) |->
        [shape |-> cells[k].shape, data |-> [c \in DOMAIN cells[k].data |-> k + 2 * c[1]]]]

ProfileFields(cells) == {UniformField(cells, 1), UniformField(cells, 3), GradedField(cells)}

InitProfile ==
    /\ pc = "start"
    /\ \E npatch \in SnapHierarchies, clus \in SnapCenters, rmin \in ProfileRadii,
          rmax \in ProfileRadii, nbins \in ProfileBins, logbins \in BOOLEAN :
         /\ (logbins /\ 0 < rmin /\ rmin < rmax) => LogSpaceExact(rmin, rmax, nbins)
         /\ \E field \in ProfileFields(SnapCells(npatch)[1]) :
              args = [field |-> field, clusrx |-> clus[1], clusry |-> clus[2],
                      clusrz |-> clus[3], rmin |-> rmin, rmax |-> rmax, nbins |-> nbins,
                      logbins |-> logbins, cellsrx |-> SnapCells(npatch)[1],
                      cellsry |-> SnapCells(npatch)[2], cellsrz |-> SnapCells(npatch)[3],
                      npatch |-> npatch, size |-> SnapSize, nmax |-> SnapNmax]
    /\ frame = <<>>
    /\ ret = None

\* a range check that lets rmax = rmin through
RangeAccepted_equal(rmin, rmax) == rmax >= rmin

\* line 234: assert (rmax > rmin)
RangeAccepted(rmin, rmax) == rmax > rmin

\* line 241: assert (rmin > 0)
LogAccepted(rmin) == rmin > 0

\* lines 233-237: the range is refused, the function returns nothing
ProfileRejectRange ==
    /\ pc = "start"
    /\ ~RangeAccepted(args.rmin, args.rmax)
    /\ ret' = None
    /\ pc' = "done"
    /\ UNCHANGED <<args, frame>>

\* lines 239-244: logarithmic bins from a radius that is not positive are
\* refused, the function returns nothing
ProfileRejectLog ==
    /\ pc = "start"
    /\ RangeAccepted(args.rmin, args.rmax)
    /\ args.logbins
    /\ ~LogAccepted(args.rmin)
    /\ ret' = None
    /\ pc' = "done"
    /\ UNCHANGED <<args, frame>>

\* lines 245-263: the boundaries, the centres, the weights and the mask of
\* the inner edge
ProfileBinning ==
    /\ pc = "start"
    /\ RangeAccepted(args.rmin, args.rmax)
    /\ args.logbins => LogAccepted(args.rmin)
    /\ LET bin_bounds == IF args.logbins THEN LogSpace(args.rmin, args.rmax, args.nbins)
                         ELSE LinSpace(args.rmin, args.rmax, args.nbins)
           levels == create_vector_levels(args.npatch)
           cell_volume == CellVolumes(levels, args.size, args.nmax)
       IN  frame' = [bin_bounds |-> bin_bounds,
                     bin_centers |-> [k \in 1..(Len(bin_bounds) - 1) |->
                                        (bin_bounds[k + 1] + bin_bounds[k]) \div 2],
                     profile |-> <<>>,
                     cell_volume |-> cell_volume,
                     field_vw |-> [k \in 1..ZipLen({Len(args.field), Len(cell_volume)}) |->
                                     ArrayScale(args.field[k], cell_volume[k])],
                     cells_outer |->
                        IF args.rmin > 0
                        THEN mask_sphere(args.rmin, args.clusrx, args.clusry, args.clusrz,
                                         args.cellsrx, args.cellsry, args.cellsrz)
                        ELSE [k \in 1..Len(args.field) |->
                                [shape |-> args.field[k].shape,
                                 data |-> [c \in DOMAIN args.field[k].data |-> FALSE]]]]
    /\ pc' = "shells"
    /\ UNCHANGED <<args, ret>>

\* inner ^ outer
MaskXor(inner, outer) ==
    [shape |-> inner.shape, data |-> [c \in DOMAIN inner.data |-> inner.data[c] # outer.data[c]]]

\* lines 265-275: the shell up to the next boundary and its weighted mean
ProfileShell ==
    /\ pc = "shells"
    /\ Len(frame.profile) < Len(frame.bin_bounds) - 1
    /\ LET r_out == frame.bin_bounds[Len(frame.profile) + 2]
           cells_inner == frame.cells_outer
           cells_outer == mask_sphere(r_out, args.clusrx, args.clusry, args.clusrz,
                                      args.cellsrx, args.cellsry, args.cellsrz)
           shell_mask == [k \in 1..ZipLen({Len(cells_inner), Len(cells_outer)}) |->
                            MaskXor(cells_inner[k], cells_outer[k])]
           sum_field_vw == Sum([k \in 1..ZipLen({Len(frame.field_vw), Len(shell_mask)}) |->
                                  ArraySum(ArrayProduct(frame.field_vw[k],
                                                        AsNumber(shell_mask[k])))])
           sum_vw == Sum([k \in 1..ZipLen({Len(shell_mask), Len(frame.cell_volume)}) |->
                            ArraySum(ArrayScale(AsNumber(shell_mask[k]),
                                                frame.cell_volume[k]))])
       IN  frame' = [frame EXCEPT !.cells_outer = cells_outer,
                                  !.profile = Append(@, Divide(sum_field_vw, sum_vw))]
    /\ UNCHANGED <<pc, args, ret>>

\* line 277
ProfileReturn ==
    /\ pc = "shells"
    /\ Len(frame.profile) = Len(frame.bin_bounds) - 1
    /\ ret' = Value(<<frame.bin_centers, frame.profile>>)
    /\ pc' = "done"
    /\ UNCHANGED <<args, frame>>

NextProfile ==
    \/ ProfileRejectRange
    \/ ProfileRejectLog
    \/ ProfileBinning
    \/ ProfileShell
    \/ ProfileReturn

SpecProfile == InitProfile /\ [][NextProfile]_vars

InvalidBinning == args.rmax <= args.rmin \/ (args.logbins /\ args.rmin <= 0)

\* C6: the call ends without raising; it hands back nothing, having
\* computed no bin boundary, mask or profile value, exactly when
\* rmax <= rmin, or logbins is true and rmin <= 0; in every other case it
\* returns the pair (bin_centers, profile), each of nbins entries.
C6_InvalidBinning ==
    /\ InvalidBinning => frame = <<>>
    /\ pc = "done" =>
          /\ ret.kind # "raise"
          /\ (ret = None) <=> InvalidBinning
          /\ ret # None =>
                /\ ret.kind = "value"
                /\ Len(ret.val) = 2
                /\ Len(ret.val[1]) = args.nbins
                /\ Len(ret.val[2]) = args.nbins

\* logarithmic bins asked from rmin = 0 with a valid range: the call is
\* refused
C6_WitnessRefused ==
    /\ pc = "done"
    /\ ret = None
    /\ args.logbins
    /\ args.rmin = 0
    /\ args.rmax > 0

IsUniform(field, v) ==
    \A k \in 1..Len(field) : \A c \in DOMAIN field[k].data : field[k].data[c] = v

UniformLinearOneBin(v) ==
    /\ pc = "done"
    /\ IsUniform(args.field, v)
    /\ args.rmin = 0
    /\ args.rmax > 0
    /\ args.nbins = 1
    /\ ~args.logbins

\* the cells strictly inside the sphere of radius R around the centre
CellsInside(R) ==
    MaskCount(mask_sphere(R, args.clusrx, args.clusry, args.clusrz,
                          args.cellsrx, args.cellsry, args.cellsrz))

\* C8 as stated: on a field that is c in every cell, rmin = 0, rmax = R > 0,
\* nbins = 1 and linear bins give a one-element profile equal to c, for
\* every centre, every R and every hierarchy.
C8_AsStated ==
    \A v \in {1, 3} :
        UniformLinearOneBin(v) =>
            /\ ret.kind = "value"
            /\ ret.val[2] = <<Divide(v, 1)>>

\* C8 amended: the one-element profile equals c provided at least one cell
\* lies strictly inside the sphere of radius R around the centre; when the
\* sphere holds no cell the value is nan.
C8_UniformProfile ==
    \A v \in {1, 3} :
        UniformLinearOneBin(v) =>
            /\ ret.kind = "value"
            /\ ret.val[2] = <<IF CellsInside(args.rmax) > 0 THEN Divide(v, 1) ELSE NaN>>

\* a uniform field of value 3 averaged over cells of two levels
C8_Witness ==
    /\ UniformLinearOneBin(3)
    /\ Len(args.npatch) = 3
    /\ CellsInside(args.rmax) > 2
    /\ \E k \in 2..Len(args.field) :
          \E c \in DOMAIN frame.cells_outer[k].data : frame.cells_outer[k].data[c]
    /\ ret.val[2] = <<Divide(3, 1)>>

(***************************************************************************)
(* tools_xyz.mass_inside, find_rDelta_eqn and find_rDelta                  *)
(*                                                                         *)
(* optimize.brentq is run as the bracketing iteration it is: it evaluates  *)
(* the function at both ends, refuses a bracket without a sign change      *)
(* with a ValueError, and else narrows the bracket, one evaluation at a    *)
(* point strictly inside it at a time, until it is no wider than the       *)
(* tolerance.  The next point is any point inside the bracket, which       *)
(* covers the bisection, secant and inverse quadratic steps alike.  The    *)
(* radii are whole numbers of RadiusStep, which is also the tolerance.     *)
(* args.threshold stands for (4 pi / 3) * background_density * Delta.      *)
(***************************************************************************)
\* d * m * cv of line 200, or the ValueError numpy raises for two shapes
\* that do not broadcast
CellMass(d, m, cv) ==
    IF Broadcastable(d.shape, m.shape)
    THEN Value(ArrayScale(ArrayProduct(d, AsNumber(m)), cv))
    ELSE Raise("ValueError")

\* lines 195-203
mass_inside(R, clusrx, clusry, clusrz, density, cellsrx, cellsry, cellsrz, npatch, size, nmax) ==
    LET levels == create_vector_levels(npatch)
        cells_volume == CellVolumes(levels, size, nmax)
        mask == mask_sphere(R, clusrx, clusry, clusrz, cellsrx, cellsry, cellsrz)
        n == ZipLen({Len(density), Len(mask), Len(cells_volume)})
        cellmasses == [k \in 1..n |-> CellMass(density[k], mask[k], cells_volume[k])]
    IN  IF \E k \in 1..n : cellmasses[k].kind = "raise"
        THEN Raise("ValueError")
        ELSE Value(Sum([k \in 1..n |-> ArraySum(cellmasses[k].val)]))

\* lines 284-285: g(r), or the error mass_inside raised
find_rDelta_eqn(r) ==
    LET m == mass_inside(r, args.clusrx, args.clusry, args.clusrz, args.density,
                         args.cellsrx, args.cellsry, args.cellsrz, args.npatch,
                         args.size, args.nmax)
    IN  IF m.kind = "raise" THEN m ELSE Value(m.val - args.threshold * r * r * r)

RadiusStep == LengthUnit \div 4

Sign(x) == IF x > 0 THEN 1 ELSE IF x < 0 THEN -1 ELSE 0

RDeltaRadii == {q * RadiusStep : q \in 1..8}

RDeltaThresholds == {1, 8, 64}

\* a density of the snapshot's shapes, or one whose patches are laid out
\* for other extents (3 x 2 x 1 cells each)
MisalignedField(cells, v) ==
    [k \in 1..Len(cells) |->
        [shape |-> <<3, 2, 1>>, data |-> [c \in Cells(3, 2, 1) |-> v]]]

RDeltaDensities(cells) ==
    {UniformField(cells, 1), UniformField(cells, 4), GradedField(cells),
     MisalignedField(cells, 1)}

InitRDelta ==
    /\ pc = "fa"
    /\ \E npatch \in SnapHierarchies, clus \in SnapCenters, rmin \in RDeltaRadii,
          rmax \in RDeltaRadii, threshold \in RDeltaThresholds :
         /\ rmin < rmax
         /\ \E density \in RDeltaDensities(SnapCells(npatch)[1]) :
              args = [threshold |-> threshold, clusrx |-> clus[1], clusry |-> clus[2],
                      clusrz |-> clus[3], density |-> density,
                      cellsrx |-> SnapCells(npatch)[1], cellsry |-> SnapCells(npatch)[2],
                      cellsrz |-> SnapCells(npatch)[3], npatch |-> npatch,
                      size |-> SnapSize, nmax |-> SnapNmax, rmin |-> rmin, rmax |-> rmax,
                      rtol |-> RadiusStep]
    /\ frame = [a |-> args.rmin, b |-> args.rmax, fa |-> None, fb |-> None, exc |-> None,
                origin |-> "none", evals |-> 0]
    /\ ret = None

\* brentq evaluates f(a); an error raised by f leaves brentq
RDeltaEvalMin ==
    /\ pc = "fa"
    /\ LET f == find_rDelta_eqn(frame.a)
       IN  IF f.kind = "raise"
           THEN /\ frame' = [frame EXCEPT !.exc = f.exc, !.origin = "mass_inside"]
                /\ pc' = "except"
           ELSE /\ frame' = [frame EXCEPT !.fa = f.val, !.evals = @ + 1]
                /\ pc' = "fb"
    /\ UNCHANGED <<args, ret>>

\* brentq evaluates f(b)
RDeltaEvalMax ==
    /\ pc = "fb"
    /\ LET f == find_rDelta_eqn(frame.b)
       IN  IF f.kind = "raise"
           THEN /\ frame' = [frame EXCEPT !.exc = f.exc, !.origin = "mass_inside"]
                /\ pc' = "except"
           ELSE /\ frame' = [frame EXCEPT !.fb = f.val, !.evals = @ + 1]
                /\ pc' = "bracket"
    /\ UNCHANGED <<args, ret>>

\* brentq: f(a) * f(b) > 0, "f(a) and f(b) must have different signs"
RDeltaNoBracket ==
    /\ pc = "bracket"
    /\ Sign(frame.fa) * Sign(frame.fb) > 0
    /\ frame' = [frame EXCEPT !.exc = "ValueError", !.origin = "no bracket"]
    /\ pc' = "except"
    /\ UNCHANGED <<args, ret>>

\* brentq: an end of the bracket is a root
RDeltaRootAtEnd ==
    /\ pc = "bracket"
    /\ Sign(frame.fa) * Sign(frame.fb) = 0
    /\ ret' = Value(IF frame.fa = 0 THEN frame.a ELSE frame.b)
    /\ pc' = "done"
    /\ UNCHANGED <<args, frame>>

\* brentq: the bracket holds a sign change and is wider than the tolerance;
\* one more evaluation inside it
RDeltaNarrow ==
    /\ pc = "bracket"
    /\ Sign(frame.fa) * Sign(frame.fb) < 0
    /\ frame.b - frame.a > args.rtol
    /\ \E s \in RDeltaRadii :
         /\ frame.a < s
         /\ s < frame.b
         /\ LET f == find_rDelta_eqn(s)
            IN  IF f.kind = "raise"
                THEN /\ frame' = [frame EXCEPT !.exc = f.exc, !.origin = "mass_inside"]
                     /\ pc' = "except"
                ELSE /\ pc' = pc
                     /\ frame' = IF Sign(f.val) * Sign(frame.fa) > 0
                                 THEN [frame EXCEPT !.a = s, !.fa = f.val, !.evals = @ + 1]
                                 ELSE [frame EXCEPT !.b = s, !.fb = f.val, !.evals = @ + 1]
    /\ UNCHANGED <<args, ret>>

\* brentq: the bracket is within the tolerance; the end with the smaller
\* residual is the root
RDeltaConverged ==
    /\ pc = "bracket"
    /\ Sign(frame.fa) * Sign(frame.fb) < 0
    /\ frame.b - frame.a <= args.rtol
    /\ ret' = Value(IF Abs(frame.fa) < Abs(frame.fb) THEN frame.a ELSE frame.b)
    /\ pc' = "done"
    /\ UNCHANGED <<args, frame>>

\* a handler that lets every error through
RDeltaHandler_reraise(exc) == Raise(exc)

\* lines 315-320: except ValueError: return float('nan'); any other error
\* leaves find_rDelta
RDeltaHandler(exc) == IF exc = "ValueError" THEN NaN ELSE Raise(exc)

\* lines 317-320
RDeltaExcept ==
    /\ pc = "except"
    /\ ret' = RDeltaHandler(frame.exc)
    /\ pc' = "done"
    /\ UNCHANGED <<args, frame>>

NextRDelta ==
    \/ RDeltaEvalMin
    \/ RDeltaEvalMax
    \/ RDeltaNoBracket
    \/ RDeltaRootAtEnd
    \/ RDeltaNarrow
    \/ RDeltaConverged
    \/ RDeltaExcept

SpecRDelta == InitRDelta /\ [][NextRDelta]_vars

\* g is defined at both ends and its two values have the same sign
SameSign ==
    LET ga == find_rDelta_eqn(args.rmin)
        gb == find_rDelta_eqn(args.rmax)
    IN  ga.kind = "value" /\ gb.kind = "value" /\ Sign(ga.val) * Sign(gb.val) > 0

OppositeSigns ==
    LET ga == find_rDelta_eqn(args.rmin)
        gb == find_rDelta_eqn(args.rmax)
    IN  ga.kind = "value" /\ gb.kind = "value" /\ Sign(ga.val) * Sign(gb.val) < 0

\* C5: when g(rmin) and g(rmax) have the same sign find_rDelta returns nan
\* and raises nothing; when they have opposite signs it returns a radius r
\* with rmin <= r <= rmax.
C5_BracketOutcome ==
    pc = "done" =>
        /\ SameSign => ret = NaN
        /\ OppositeSigns =>
              /\ ret.kind = "value"
              /\ args.rmin <= ret.val
              /\ ret.val <= args.rmax

\* a root found strictly inside the bracket after narrowing it
C5_Witness ==
    /\ pc = "done"
    /\ OppositeSigns
    /\ ret.kind = "value"
    /\ args.rmin < ret.val
    /\ ret.val < args.rmax
    /\ frame.evals > 3

\* C10: find_rDelta returns nan only when the bracket holds no sign change;
\* an error raised while g is evaluated through mass_inside reaches the
\* caller as an exception and is never turned into nan.
C10_OnlyNoBracketIsNaN ==
    pc = "done" =>
        /\ ret = NaN => frame.origin = "no bracket"
        /\ frame.origin = "mass_inside" => ret.kind = "raise"

====
